---- MODULE Spec2Model ----
(***************************************************************************)
(* Life Time Dashboard (src/life_dashboard_app.py).                        *)
(*                                                                         *)
(* The program is a Streamlit script: every change of a sidebar widget     *)
(* re-runs the whole script from top to bottom with the new widget         *)
(* values.  The state is the widget values and what the last run of the    *)
(* script computed from them.  One action per widget: it stores the new    *)
(* value and re-runs the script (Rerun).                                   *)
(*                                                                         *)
(* Numbers.  The widgets hand the script Python floats.  The model draws   *)
(* hours from multiples of 0.5, for which every sum and product up to      *)
(* time_spent / time_future is exact in binary64, and keeps those values   *)
(* as scaled integers:                                                     *)
(*     hours per day          in half hours      (24.0 is 48)              *)
(*     age_days               in days                                      *)
(*     days_left              in quarter days    (365.25 is 1461)          *)
(*     time_spent[k]          in half hours                                *)
(*     time_future[k]         in eighths of an hour                        *)
(* The divisions of the display code (age_years, weeks_left, months_left,  *)
(* the unit conversion and the percentages of the summary) round, so they  *)
(* are computed in binary64 itself: a float is [neg, m, e], the value      *)
(* (-1)^neg * m * 2^e with 2^52 <= m < 2^53 (or m = 0), m held in three    *)
(* limbs of 20 bits, and every operation rounds to nearest, ties to even.  *)
(***************************************************************************)
EXTENDS Integers, Sequences, FiniteSets

\* ---- bounds of the model -------------------------------------------------
\* script re-runs (widget changes) in one session
MaxRuns == 4
\* custom categories the model lets the user ask for (the widget allows 10)
MaxCustom == 2

\* ---- binary64 arithmetic -------------------------------------------------
\* A big number is <<x1, x2, x3>> = x1 * Limb^2 + x2 * Limb + x3 with
\* 0 <= x2, x3 < Limb; x1 takes what is above (below 2^30).
Limb == 2^20
BigZero == <<0, 0, 0>>
BigOne == <<0, 0, 1>>
Two52 == <<2^12, 0, 0>>
Two53 == <<2^13, 0, 0>>

\* carry propagation: limbs 2 and 3 back below Limb
Carry(x) ==
    LET mid == x[2] + (x[3] \div Limb)
    IN  <<x[1] + (mid \div Limb), mid % Limb, x[3] % Limb>>

BigFromInt(n) == <<0, n \div Limb, n % Limb>>

BigAdd(x, y) == Carry(<<x[1] + y[1], x[2] + y[2], x[3] + y[3]>>)

BigGE(x, y) ==
    \/ x[1] > y[1]
    \/ x[1] = y[1] /\ x[2] > y[2]
    \/ x[1] = y[1] /\ x[2] = y[2] /\ x[3] >= y[3]

\* x - y for x >= y
BigSub(x, y) ==
    LET d0 == x[3] - y[3]
        b0 == IF d0 < 0 THEN 1 ELSE 0
        d1 == x[2] - y[2] - b0
        b1 == IF d1 < 0 THEN 1 ELSE 0
    IN  <<x[1] - y[1] - b1, d1 + b1 * Limb, d0 + b0 * Limb>>

\* x * k for 0 <= k <= 2^10
BigScale(x, k) == Carry(<<x[1] * k, x[2] * k, x[3] * k>>)

\* x * b for any b >= 0, ten bits of b at a time
RECURSIVE BigMulInt(_, _)
BigMulInt(x, b) ==
    IF b = 0 THEN BigZero
    ELSE BigAdd(BigScale(x, b % 1024), BigScale(BigMulInt(x, b \div 1024), 1024))

\* the limbs of x from the lowest, the top limb split in two
Limbs4(x) == <<x[3], x[2], x[1] % Limb, x[1] \div Limb>>

LimbAt(l, i) == IF i < 0 \/ i > 3 THEN 0 ELSE l[i + 1]

Pack(l) == <<l[4] * Limb + l[3], l[2], l[1]>>

\* floor(x / 2^k)
Shr(x, k) ==
    LET l == Limbs4(x)
        w == k \div 20
        p == 2^(k % 20)
        c == 2^(20 - (k % 20))
        N(j) == (LimbAt(l, j + w) \div p) + (LimbAt(l, j + w + 1) % p) * c
    IN  Pack(<<N(0), N(1), N(2), N(3)>>)

\* x * 2^k, for a product below 2^70
Shl(x, k) ==
    LET l == Limbs4(x)
        w == k \div 20
        p == 2^(k % 20)
        c == 2^(20 - (k % 20))
        N(j) == (LimbAt(l, j - w) % c) * p + (LimbAt(l, j - w - 1) \div c)
    IN  Pack(<<N(0), N(1), N(2), N(3)>>)

\* bit k of x
BitAt(x, k) == (LimbAt(Limbs4(x), k \div 20) \div 2^(k % 20)) % 2

\* the k lowest bits of x are all 0
LowBitsZero(x, k) ==
    LET l == Limbs4(x)
    IN  /\ \A i \in 0..((k \div 20) - 1) : LimbAt(l, i) = 0
        /\ LimbAt(l, k \div 20) % 2^(k % 20) = 0

\* the number of bits of 0 <= n < 2^30
BitLen(n) == IF n = 0 THEN 0 ELSE CHOOSE b \in 1..30 : n \div 2^(b - 1) = 1

BigBitLen(x) ==
    IF x[1] > 0 THEN 40 + BitLen(x[1])
    ELSE IF x[2] > 0 THEN 20 + BitLen(x[2])
    ELSE BitLen(x[3])

FZero == [neg |-> FALSE, m |-> BigZero, e |-> 0]

\* the float nearest to (-1)^neg * (x + f) * 2^e, ties to even, where f is 0,
\* or in (0, 1) when sticky (then x has more than 53 bits)
FRound(neg, x, e, sticky) ==
    LET n == BigBitLen(x)
        k == n - 53
        m0 == Shr(x, k)
        up == /\ BitAt(x, k - 1) = 1
              /\ (sticky \/ ~LowBitsZero(x, k - 1) \/ m0[3] % 2 = 1)
        m1 == IF up THEN BigAdd(m0, BigOne) ELSE m0
    IN  IF n = 0 THEN FZero
        ELSE IF n <= 53 THEN [neg |-> neg, m |-> Shl(x, 53 - n), e |-> e - (53 - n)]
        ELSE IF m1 = Two53 THEN [neg |-> neg, m |-> Two52, e |-> e + k + 1]
        ELSE [neg |-> neg, m |-> m1, e |-> e + k]

\* the float n * 2^e, exact for |n| < 2^31
FFromInt(n, e) ==
    FRound(n < 0, BigFromInt(IF n < 0 THEN 0 - n ELSE n), e, FALSE)

FNeg(a) == IF a = FZero THEN a ELSE [a EXCEPT !.neg = ~a.neg]

\* |a| >= |b|
MagGE(a, b) ==
    \/ b = FZero
    \/ a # FZero /\ (a.e > b.e \/ (a.e = b.e /\ BigGE(a.m, b.m)))

\* one step of the long division by d in base 1024, for r < d and
\* 2^52 <= d < 2^53: <<floor(1024 r / d), 1024 r mod d>>.  The digit is
\* estimated from the 20 leading bits of d and is then at most 1 too small.
DivDigit(r, d) ==
    LET rr == BigScale(r, 1024)
        qh == (rr[1] * 128 + rr[2] \div 8192) \div (d[1] * 128 + d[2] \div 8192 + 1)
        r0 == BigSub(rr, BigScale(d, qh))
    IN  IF BigGE(r0, d) THEN <<qh + 1, BigSub(r0, d)>> ELSE <<qh, r0>>

\* a / b for b # 0: 60 bits of quotient after the leading one, then rounded
FDiv(a, b) ==
    IF a = FZero THEN FZero
    ELSE LET lead == BigGE(a.m, b.m)
             s1 == DivDigit(IF lead THEN BigSub(a.m, b.m) ELSE a.m, b.m)
             s2 == DivDigit(s1[2], b.m)
             s3 == DivDigit(s2[2], b.m)
             s4 == DivDigit(s3[2], b.m)
             s5 == DivDigit(s4[2], b.m)
             s6 == DivDigit(s5[2], b.m)
             q == << (IF lead THEN Limb ELSE 0) + s1[1] * 1024 + s2[1],
                     s3[1] * 1024 + s4[1],
                     s5[1] * 1024 + s6[1] >>
         IN  FRound(a.neg # b.neg, q, a.e - b.e - 60, s6[2] # BigZero)

\* a * k for an integer 0 < k <= 2^10
FMulInt(a, k) == FRound(a.neg, BigScale(a.m, k), a.e, FALSE)

\* hi + lo, or hi - lo when sub, for |hi| >= |lo| > 0; the sign is hi's.
\* lo is taken at 16 bits below hi's last bit, what lies below is sticky.
MagAdd(hi, lo, sub) ==
    LET d == hi.e - lo.e
        k == IF d <= 16 THEN 0 ELSE d - 16
        low == Shr(lo.m, k)
        lost == ~LowBitsZero(lo.m, k)
        top == Shl(hi.m, d - k)
        x == IF sub
             THEN BigSub(top, IF lost THEN BigAdd(low, BigOne) ELSE low)
             ELSE BigAdd(top, low)
    IN  FRound(hi.neg, x, lo.e + k, lost)

FAdd(a, b) ==
    IF a = FZero THEN b
    ELSE IF b = FZero THEN a
    ELSE IF MagGE(a, b) THEN MagAdd(a, b, a.neg # b.neg)
    ELSE MagAdd(b, a, a.neg # b.neg)

FSub(a, b) == FAdd(a, FNeg(b))

\* a >= b
FGE(a, b) == ~FSub(a, b).neg

\* max(a, 0)
FMax0(a) == IF a.neg THEN FZero ELSE a

\* f"{a:.1f}" for 0 <= a < 2^52, as the number of tenths shown: the exact
\* value of the float rounded to one decimal, ties to even
Tenths(a) ==
    IF a = FZero THEN 0
    ELSE LET x == BigScale(a.m, 10)
             k == 0 - a.e
             y == Shr(x, k)
             t == y[2] * Limb + y[3]
             up == /\ BitAt(x, k - 1) = 1
                   /\ (~LowBitsZero(x, k - 1) \/ t % 2 = 1)
         IN  IF up THEN t + 1 ELSE t

\* ---- Python dicts: insertion-ordered sequences of <<key, value>> ---------
Keys(d) == [i \in 1..Len(d) |-> d[i][1]]

HasKey(d, k) == \E i \in 1..Len(d) : d[i][1] = k

Get(d, k) == d[CHOOSE i \in 1..Len(d) : d[i][1] = k][2]

\* d[k] = v: an existing key keeps its place and takes the new value, a new
\* key goes to the end
DictSet(d, k, v) ==
    IF HasKey(d, k)
    THEN [i \in 1..Len(d) |-> IF d[i][1] = k THEN <<k, v>> ELSE d[i]]
    ELSE Append(d, <<k, v>>)

\* sum(d.values())
RECURSIVE SumValues(_)
SumValues(d) == IF d = <<>> THEN 0 ELSE d[1][2] + SumValues(Tail(d))

\* ---- the widgets' values the model draws from ---------------------------
Units == {"Years", "Months", "Weeks", "Days", "Hours"}

\* date(2000, 1, 1).toordinal()
DefaultDob == 730120

\* date.today(): 2004-01-01, four years of 365.25 days after the default date
\* of birth
Today == DefaultDob + 1461

\* 2000-01-01, 2001-03-31 and today itself: no date of birth after today
DobChoices == {DefaultDob, DefaultDob + 455, Today}

ExpectedAgeChoices == {1, 4, 63, 64, 80}

\* 0.0, 3.5 and 24.0 hours per day
HourChoices == {0, 7, 48}

\* job_hours may also be 11.5, which with the other defaults fills the day
JobHourChoices == HourChoices \cup {23}

NameChoices == {"", "Hobby", "Working", "Free Time"}

VARIABLES
    \* widget values
    selected_unit, dob, expected_age,
    job_hours, eating_hours, travel_hours, sleep_hours, exercise_hours,
    family_hours,
    cat_inputs,            \* <<[name, hours], ...>>: cat_name_i, cat_hours_i
    \* what the last run of the script computed
    custom_categories, age_days, days_left,
    total_committed_hours, free_hours_per_day, categories,
    time_spent, time_future,
    overcommit_warning,    \* st.warning(... exceeding 24 hours!) was issued
    runs                   \* re-runs of the script so far

inputs == <<selected_unit, dob, expected_age, job_hours, eating_hours,
            travel_hours, sleep_hours, exercise_hours, family_hours, cat_inputs>>

outputs == <<custom_categories, age_days, days_left, total_committed_hours,
             free_hours_per_day, categories, time_spent, time_future,
             overcommit_warning>>

vars == <<inputs, outputs, runs>>

\* ---- the script ----------------------------------------------------------
\* lines 61-75: the loop over the custom-category widgets
RECURSIVE CustomCategories(_, _)
CustomCategories(entries, n) ==
    IF n = 0 THEN <<>>
    ELSE LET d == CustomCategories(entries, n - 1)
         IN  IF entries[n].name # ""
             THEN DictSet(d, entries[n].name, entries[n].hours)
             ELSE d

hours_per_unit(unit) ==
    CASE unit = "Hours"  -> FFromInt(1, 0)
      [] unit = "Days"   -> FFromInt(24, 0)
      [] unit = "Weeks"  -> FFromInt(24 * 7, 0)
      [] unit = "Months" -> FFromInt(24 * 487, -4)      \* 24 * 30.4375
      [] unit = "Years"  -> FFromInt(24 * 1461, -2)     \* 24 * 365.25

AgeDays(today, d) == today - d

\* (expected_age * 365.25) - age_days, the floor at 0 left out
DaysLeftSigned(ea, ad) == ea * 1461 - 4 * ad

\* years taken as 365 days
DaysLeftWholeYears(ea, ad) ==
    LET left == ea * 1460 - 4 * ad
    IN  IF left > 0 THEN left ELSE 0

\* max((expected_age * 365.25) - age_days, 0), in quarter days
DaysLeft(ea, ad) ==
    LET left == ea * 1461 - 4 * ad
    IN  IF left > 0 THEN left ELSE 0

\* the custom categories left out of the total
TotalCommittedBuiltinsOnly(jh, eh, th, sh, xh, fh, cc) ==
    jh + eh + th + sh + xh + fh

TotalCommittedHours(jh, eh, th, sh, xh, fh, cc) ==
    jh + eh + th + sh + xh + fh + SumValues(cc)

\* max(0.0, 24.0 - total_committed_hours)
FreeHoursPerDay(total) == IF 48 - total > 0 THEN 48 - total ELSE 0

\* for name, hrs in custom_categories.items(): categories[name] = hrs
RECURSIVE Merge(_, _, _)
Merge(d, cc, n) ==
    IF n = 0 THEN d
    ELSE DictSet(Merge(d, cc, n - 1), cc[n][1], cc[n][2])

Categories(jh, eh, th, sh, xh, fh, cc, free) ==
    LET fixed == << <<"Working", jh>>, <<"Eating", eh>>, <<"Traveling", th>>,
                    <<"Sleeping", sh>>, <<"Exercise", xh>>,
                    <<"Friends/Family", fh>> >>
        merged == Merge(fixed, cc, Len(cc))
    IN  IF free > 0 THEN DictSet(merged, "Free Time", free) ELSE merged

\* {k: v * age_days for k, v in categories.items()}
TimeSpent(cats, ad) == [i \in 1..Len(cats) |-> <<cats[i][1], cats[i][2] * ad>>]

\* days_left cut to whole days
TimeFutureWholeDays(cats, dl) ==
    [i \in 1..Len(cats) |-> <<cats[i][1], cats[i][2] * ((dl \div 4) * 4)>>]

\* {k: v * days_left for k, v in categories.items()}
TimeFuture(cats, dl) == [i \in 1..Len(cats) |-> <<cats[i][1], cats[i][2] * dl>>]

\* the warning from 24 hours on
OverCommittedFromFullDay(total) == total >= 48

\* if total_committed_hours > 24: st.warning(...)
OverCommitted(total) == total > 48

Init ==
    /\ selected_unit = "Years"
    /\ dob = DefaultDob
    /\ expected_age = 63
    /\ job_hours = 16
    /\ eating_hours = 4
    /\ travel_hours = 2
    /\ sleep_hours = 14
    /\ exercise_hours = 1
    /\ family_hours = 4
    /\ cat_inputs = <<>>
    /\ runs = 0
    /\ custom_categories = CustomCategories(cat_inputs, Len(cat_inputs))
    /\ age_days = AgeDays(Today, dob)
    /\ days_left = DaysLeft(expected_age, age_days)
    /\ total_committed_hours =
           TotalCommittedHours(job_hours, eating_hours, travel_hours, sleep_hours,
                               exercise_hours, family_hours, custom_categories)
    /\ free_hours_per_day = FreeHoursPerDay(total_committed_hours)
    /\ categories = Categories(job_hours, eating_hours, travel_hours, sleep_hours,
                               exercise_hours, family_hours, custom_categories,
                               free_hours_per_day)
    /\ time_spent = TimeSpent(categories, age_days)
    /\ time_future = TimeFuture(categories, days_left)
    /\ overcommit_warning = OverCommitted(total_committed_hours)

\* one run of the script on the new widget values
Rerun ==
    /\ runs' = runs + 1
    /\ custom_categories' = CustomCategories(cat_inputs', Len(cat_inputs'))
    /\ age_days' = AgeDays(Today, dob')
    /\ days_left' = DaysLeft(expected_age', age_days')
    /\ total_committed_hours' =
           TotalCommittedHours(job_hours', eating_hours', travel_hours',
                               sleep_hours', exercise_hours', family_hours',
                               custom_categories')
    /\ free_hours_per_day' = FreeHoursPerDay(total_committed_hours')
    /\ categories' = Categories(job_hours', eating_hours', travel_hours',
                                sleep_hours', exercise_hours', family_hours',
                                custom_categories', free_hours_per_day')
    /\ time_spent' = TimeSpent(categories', age_days')
    /\ time_future' = TimeFuture(categories', days_left')
    /\ overcommit_warning' = OverCommitted(total_committed_hours')

SelectUnit ==
    /\ runs < MaxRuns
    /\ \E u \in Units \ {selected_unit} : selected_unit' = u
    /\ UNCHANGED <<dob, expected_age, job_hours, eating_hours, travel_hours,
                   sleep_hours, exercise_hours, family_hours, cat_inputs>>
    /\ Rerun

SetDob ==
    /\ runs < MaxRuns
    /\ \E d \in DobChoices \ {dob} : dob' = d
    /\ UNCHANGED <<selected_unit, expected_age, job_hours, eating_hours,
                   travel_hours, sleep_hours, exercise_hours, family_hours,
                   cat_inputs>>
    /\ Rerun

SetExpectedAge ==
    /\ runs < MaxRuns
    /\ \E a \in ExpectedAgeChoices \ {expected_age} :
           a \in 1..120 /\ expected_age' = a
    /\ UNCHANGED <<selected_unit, dob, job_hours, eating_hours, travel_hours,
                   sleep_hours, exercise_hours, family_hours, cat_inputs>>
    /\ Rerun

SetJobHours ==
    /\ runs < MaxRuns
    /\ \E h \in JobHourChoices \ {job_hours} : job_hours' = h
    /\ UNCHANGED <<selected_unit, dob, expected_age, eating_hours, travel_hours,
                   sleep_hours, exercise_hours, family_hours, cat_inputs>>
    /\ Rerun

SetEatingHours ==
    /\ runs < MaxRuns
    /\ \E h \in HourChoices \ {eating_hours} : eating_hours' = h
    /\ UNCHANGED <<selected_unit, dob, expected_age, job_hours, travel_hours,
                   sleep_hours, exercise_hours, family_hours, cat_inputs>>
    /\ Rerun

SetTravelHours ==
    /\ runs < MaxRuns
    /\ \E h \in HourChoices \ {travel_hours} : travel_hours' = h
    /\ UNCHANGED <<selected_unit, dob, expected_age, job_hours, eating_hours,
                   sleep_hours, exercise_hours, family_hours, cat_inputs>>
    /\ Rerun

SetSleepHours ==
    /\ runs < MaxRuns
    /\ \E h \in HourChoices \ {sleep_hours} : sleep_hours' = h
    /\ UNCHANGED <<selected_unit, dob, expected_age, job_hours, eating_hours,
                   travel_hours, exercise_hours, family_hours, cat_inputs>>
    /\ Rerun

SetExerciseHours ==
    /\ runs < MaxRuns
    /\ \E h \in HourChoices \ {exercise_hours} : exercise_hours' = h
    /\ UNCHANGED <<selected_unit, dob, expected_age, job_hours, eating_hours,
                   travel_hours, sleep_hours, family_hours, cat_inputs>>
    /\ Rerun

SetFamilyHours ==
    /\ runs < MaxRuns
    /\ \E h \in HourChoices \ {family_hours} : family_hours' = h
    /\ UNCHANGED <<selected_unit, dob, expected_age, job_hours, eating_hours,
                   travel_hours, sleep_hours, exercise_hours, cat_inputs>>
    /\ Rerun

\* num_custom: the widgets of a category the loop no longer draws lose their
\* values, a category drawn for the first time starts at "" and 0.0
SetNumCustom ==
    /\ runs < MaxRuns
    /\ \E n \in (0..MaxCustom) \ {Len(cat_inputs)} :
           cat_inputs' = [i \in 1..n |->
                             IF i <= Len(cat_inputs) THEN cat_inputs[i]
                             ELSE [name |-> "", hours |-> 0]]
    /\ UNCHANGED <<selected_unit, dob, expected_age, job_hours, eating_hours,
                   travel_hours, sleep_hours, exercise_hours, family_hours>>
    /\ Rerun

SetCatName ==
    /\ runs < MaxRuns
    /\ \E i \in 1..Len(cat_inputs) : \E nm \in NameChoices \ {cat_inputs[i].name} :
           cat_inputs' = [cat_inputs EXCEPT ![i].name = nm]
    /\ UNCHANGED <<selected_unit, dob, expected_age, job_hours, eating_hours,
                   travel_hours, sleep_hours, exercise_hours, family_hours>>
    /\ Rerun

SetCatHours ==
    /\ runs < MaxRuns
    /\ \E i \in 1..Len(cat_inputs) : \E h \in HourChoices \ {cat_inputs[i].hours} :
           cat_inputs' = [cat_inputs EXCEPT ![i].hours = h]
    /\ UNCHANGED <<selected_unit, dob, expected_age, job_hours, eating_hours,
                   travel_hours, sleep_hours, exercise_hours, family_hours>>
    /\ Rerun

Next ==
    \/ SelectUnit
    \/ SetDob
    \/ SetExpectedAge
    \/ SetJobHours
    \/ SetEatingHours
    \/ SetTravelHours
    \/ SetSleepHours
    \/ SetExerciseHours
    \/ SetFamilyHours
    \/ SetNumCustom
    \/ SetCatName
    \/ SetCatHours

Spec == Init /\ [][Next]_vars

\* ---- what the page shows, computed from the last run's values -----------
\* (today - dob).days / 365.25
age_years == FDiv(FFromInt(age_days, 0), FFromInt(1461, -2))

\* max(expected_age - age_years, 0)
years_left == FMax0(FSub(FFromInt(expected_age, 0), age_years))

\* days_left * 24, in quarter hours
hours_left == days_left * 24

\* days_left / 7
weeks_left == FDiv(FFromInt(days_left, -2), FFromInt(7, 0))

\* days_left / 30.4375
months_left == FDiv(FFromInt(days_left, -2), FFromInt(487, -4))

\* the percentages taken of the spent value instead of the total
SummaryRowOfSpentOnly(activity, spent_h, remaining_h, unit) ==
    LET factor == hours_per_unit(unit)
        spent_val == FDiv(FFromInt(spent_h, -1), factor)
        rem_val == FDiv(FFromInt(remaining_h, -3), factor)
        total_val == spent_val
        pct_spent == IF total_val # FZero
                     THEN FMulInt(FDiv(spent_val, total_val), 100) ELSE FZero
        pct_rem == IF total_val # FZero
                   THEN FMulInt(FDiv(rem_val, total_val), 100) ELSE FZero
    IN  [ Activity |-> activity,
          Spent |-> Tenths(spent_val),
          Remaining |-> Tenths(rem_val),
          PctSpent |-> Tenths(pct_spent),
          PctRemaining |-> Tenths(pct_rem),
          pct_spent |-> pct_spent,
          pct_rem |-> pct_rem ]

\* one row of summary_data; Spent, Remaining, PctSpent and PctRemaining are the
\* "%.1f" strings as numbers of tenths, the other fields are the row's floats
SummaryRow(activity, spent_h, remaining_h, unit) ==
    LET factor == hours_per_unit(unit)
        spent_val == FDiv(FFromInt(spent_h, -1), factor)
        rem_val == FDiv(FFromInt(remaining_h, -3), factor)
        total_val == FAdd(spent_val, rem_val)
        pct_spent == IF total_val # FZero
                     THEN FMulInt(FDiv(spent_val, total_val), 100) ELSE FZero
        pct_rem == IF total_val # FZero
                   THEN FMulInt(FDiv(rem_val, total_val), 100) ELSE FZero
    IN  [ Activity |-> activity,
          Spent |-> Tenths(spent_val),
          Remaining |-> Tenths(rem_val),
          PctSpent |-> Tenths(pct_spent),
          PctRemaining |-> Tenths(pct_rem),
          pct_spent |-> pct_spent,
          pct_rem |-> pct_rem ]

\* for activity, spent_h in time_spent.items(): ... time_future.get(activity, 0)
summary_data ==
    [i \in 1..Len(time_spent) |->
        SummaryRow(time_spent[i][1], time_spent[i][2],
                   IF HasKey(time_future, time_spent[i][1])
                   THEN Get(time_future, time_spent[i][1]) ELSE 0,
                   selected_unit)]

\* the session in which only the widgets behind the displayed figures change
NextDisplay ==
    \/ SelectUnit
    \/ SetDob
    \/ SetExpectedAge
    \/ SetJobHours

SpecDisplay == Init /\ [][NextDisplay]_vars

\* ---- what the claims speak of --------------------------------------------
Builtins ==
    <<"Working", "Eating", "Traveling", "Sleeping", "Exercise", "Friends/Family">>

BuiltinNames == {Builtins[i] : i \in 1..Len(Builtins)}

NoDuplicates(s) == \A i, j \in 1..Len(s) : i # j => s[i] # s[j]

\* entry i has a name and no later entry has the same name
IsLastNamed(i) ==
    /\ cat_inputs[i].name # ""
    /\ \A j \in (i + 1)..Len(cat_inputs) : cat_inputs[j].name # cat_inputs[i].name

\* the hours of the last entry named nm
LastHours(nm) ==
    cat_inputs[CHOOSE i \in 1..Len(cat_inputs) :
                   cat_inputs[i].name = nm /\ IsLastNamed(i)].hours

\* the first entry named nm
FirstEntry(nm) ==
    CHOOSE i \in 1..Len(cat_inputs) :
        /\ cat_inputs[i].name = nm
        /\ \A j \in 1..(i - 1) : cat_inputs[j].name # nm

RECURSIVE NamedHours(_)
NamedHours(n) ==
    IF n = 0 THEN 0
    ELSE NamedHours(n - 1) + (IF IsLastNamed(n) THEN cat_inputs[n].hours ELSE 0)

\* what the user entered for a day: the six built-in inputs and the named
\* custom categories
EnteredHours ==
    job_hours + eating_hours + travel_hours + sleep_hours + exercise_hours
        + family_hours + NamedHours(Len(cat_inputs))

\* the expected age is reached or exceeded
AgeReached == expected_age * 1461 <= 4 * age_days

ValidInputs == dob <= Today /\ expected_age \in 1..120

F100 == FFromInt(100, 0)

FAbs(a) == [a EXCEPT !.neg = FALSE]

\* a * b as a big number, for a >= 0 and b >= 0
Product(a, b) == BigMulInt(BigFromInt(a), b)

\* ---- C1 -------------------------------------------------------------------
\* C1: for a date of birth not after today and an expected age in 1..120,
\* days_left, hours_left, weeks_left, months_left and years_left are all >= 0,
\* and all are exactly 0 once expected_age * 365.25 <= age_days.
RemainingLifeNonNegative ==
    ValidInputs =>
        /\ days_left >= 0
        /\ hours_left >= 0
        /\ ~weeks_left.neg
        /\ ~months_left.neg
        /\ ~years_left.neg
        /\ AgeReached =>
               /\ days_left = 0
               /\ hours_left = 0
               /\ weeks_left = FZero
               /\ months_left = FZero
               /\ years_left = FZero

\* the script has run on an age past the expected age
ExpectedAgeExceeded ==
    /\ runs > 0
    /\ ValidInputs
    /\ expected_age * 1461 < 4 * age_days
    /\ years_left = FZero

\* ---- C2 -------------------------------------------------------------------
\* C2: when the committed hours of a day are exactly 24, free_hours_per_day
\* is 0 and neither categories nor time_spent nor time_future has a
\* "Free Time" entry, whatever the custom entries are.
NoFreeTimeOnFullDay ==
    total_committed_hours = 48 =>
        /\ free_hours_per_day = 0
        /\ ~HasKey(categories, "Free Time")
        /\ ~HasKey(time_spent, "Free Time")
        /\ ~HasKey(time_future, "Free Time")

\* ---- C3 -------------------------------------------------------------------
\* C3: when the entered hours exceed 24 the warning is issued, free time is 0
\* and every category still has its spent and its remaining value; when they
\* do not exceed 24 no warning is issued.
OverCommitmentReported ==
    /\ EnteredHours > 48 =>
           /\ overcommit_warning
           /\ free_hours_per_day = 0
           /\ Keys(time_spent) = Keys(categories)
           /\ Keys(time_future) = Keys(categories)
    /\ EnteredHours <= 48 => ~overcommit_warning

\* the script has run on more than 24 entered hours, custom ones among them
OverCommittedSession ==
    /\ runs > 0
    /\ EnteredHours > 48
    /\ custom_categories # <<>>
    /\ overcommit_warning

\* ---- C4 -------------------------------------------------------------------
\* C4: with age_days > 0 and days_left > 0, the hours spent per day lived
\* equal the hours remaining per day left, and both equal
\* total_committed_hours + free_hours_per_day, also when a custom name is
\* that of a built-in category or "Free Time".
DailyRatesEqualCommitted ==
    (age_days > 0 /\ days_left > 0) =>
        /\ Product(SumValues(time_spent), days_left)
               = Product(SumValues(time_future), age_days)
        /\ SumValues(time_spent)
               = (total_committed_hours + free_hours_per_day) * age_days
        /\ SumValues(time_future)
               = (total_committed_hours + free_hours_per_day) * days_left

\* ---- C5 -------------------------------------------------------------------
\* C5: the daily hours of all categories of the final mapping, Free Time
\* included, sum to more than 24 only if the entered hours do.
DayNeverOverfilled == SumValues(categories) > 48 => EnteredHours > 48

\* free time fills up a day that has a custom category in it
FullDayWithCustom ==
    /\ runs > 0
    /\ custom_categories # <<>>
    /\ EnteredHours < 48
    /\ HasKey(categories, "Free Time")
    /\ SumValues(categories) = 48

\* ---- C6 -------------------------------------------------------------------
\* C6 as stated: for valid inputs, age_days + days_left is the lifespan
\* expected_age * 365.25 (which, being positive, the clamp at 0 leaves alone).
LivedPlusRemainingIsLifespan ==
    ValidInputs => 4 * age_days + days_left = expected_age * 1461

\* C6 as amended: for valid inputs, age_days + days_left is the larger of
\* age_days and expected_age * 365.25: the lifespan until the expected age is
\* reached, the days lived after that.
LivedPlusRemainingIsLongerOfBoth ==
    ValidInputs =>
        4 * age_days + days_left =
            IF 4 * age_days > expected_age * 1461
            THEN 4 * age_days ELSE expected_age * 1461

\* more days lived than the expected lifespan has
LivedBeyondExpectedAge ==
    /\ runs > 0
    /\ ValidInputs
    /\ 4 * age_days > expected_age * 1461
    /\ days_left = 0

\* ---- C7 -------------------------------------------------------------------
\* C7 as stated: in every row of the summary, in every unit, the two
\* percentages sum to exactly 100 when the category has hours spent or
\* remaining, and both are 0 when it has none.
PercentagesSumTo100 ==
    LET rows == summary_data
    IN  \A i \in 1..Len(rows) :
            IF time_spent[i][2] + time_future[i][2] > 0
            THEN FAdd(rows[i].pct_spent, rows[i].pct_rem) = F100
            ELSE rows[i].pct_spent = FZero /\ rows[i].pct_rem = FZero

\* C7 as amended: in every row, in every unit, when the category has hours
\* spent or remaining the two percentages sum to 100 up to the rounding of
\* the float operations (within 2^-40) and the two one-decimal percentages
\* of the row sum to 99.9, 100.0 or 100.1; when it has none, both percentages
\* are 0 and nothing is divided.
PercentagesSumNear100 ==
    LET rows == summary_data
    IN  \A i \in 1..Len(rows) :
            IF time_spent[i][2] + time_future[i][2] > 0
            THEN /\ FGE(FFromInt(1, -40),
                        FAbs(FSub(FAdd(rows[i].pct_spent, rows[i].pct_rem), F100)))
                 /\ rows[i].PctSpent + rows[i].PctRemaining \in {999, 1000, 1001}
            ELSE /\ rows[i].pct_spent = FZero /\ rows[i].pct_rem = FZero
                 /\ rows[i].PctSpent = 0 /\ rows[i].PctRemaining = 0

\* a row whose percentages neither sum to 100 as floats nor as shown
DisplayedPercentagesOffByTenth ==
    /\ runs > 0
    /\ LET rows == summary_data
       IN  \E i \in 1..Len(rows) :
               /\ time_spent[i][2] > 0 /\ time_future[i][2] > 0
               /\ FAdd(rows[i].pct_spent, rows[i].pct_rem) # F100
               /\ rows[i].PctSpent + rows[i].PctRemaining = 999

\* ---- C8 -------------------------------------------------------------------
\* C8: the categories, and with them time_spent, time_future and the rows of
\* the summary and of the export, are the six built-ins in their fixed order,
\* then the custom categories in entry order, then "Free Time" last whenever
\* it is there, each once.
RowsInConstructionOrder ==
    LET keys == Keys(categories)
        custom == {cat_inputs[i].name : i \in 1..Len(cat_inputs)}
                      \ (BuiltinNames \cup {"", "Free Time"})
        Pos(nm) == CHOOSE i \in 1..Len(keys) : keys[i] = nm
    IN  /\ NoDuplicates(keys)
        /\ SubSeq(keys, 1, 6) = Builtins
        /\ {keys[i] : i \in 1..Len(keys)} \ (BuiltinNames \cup {"Free Time"}) = custom
        /\ \A a, b \in custom : FirstEntry(a) < FirstEntry(b) => Pos(a) < Pos(b)
        /\ HasKey(categories, "Free Time") => keys[Len(keys)] = "Free Time"
        /\ Keys(time_spent) = keys
        /\ Keys(time_future) = keys

\* ---- C9 -------------------------------------------------------------------
\* C9: when two custom entries have the same non-empty name, categories has
\* that name once, with the hours of the later (the last) entry of that name.
LastCustomEntryWins ==
    \A i, j \in 1..Len(cat_inputs) :
        (i < j /\ cat_inputs[i].name # "" /\ cat_inputs[i].name = cat_inputs[j].name) =>
            /\ Cardinality({k \in 1..Len(categories) :
                               categories[k][1] = cat_inputs[i].name}) = 1
            /\ Get(categories, cat_inputs[i].name) = LastHours(cat_inputs[i].name)

\* ---- C10 ------------------------------------------------------------------
\* C10: time_spent and time_future have an entry for exactly the categories
\* of the mapping; a category's hours spent are its daily rate times age_days,
\* its hours remaining the rate times days_left, both >= 0, so that
\* spent * days_left = remaining * age_days.
AllocationsProportional ==
    /\ NoDuplicates(Keys(categories))
    /\ Keys(time_spent) = Keys(categories)
    /\ Keys(time_future) = Keys(categories)
    /\ \A i \in 1..Len(categories) :
           /\ time_spent[i][2] = categories[i][2] * age_days
           /\ time_future[i][2] = categories[i][2] * days_left
           /\ time_spent[i][2] >= 0
           /\ time_future[i][2] >= 0
           /\ Product(time_spent[i][2], days_left)
                  = Product(time_future[i][2], age_days)

\* built-in, custom and free time allocated over days lived and days left
AllocatedWithCustomAndFree ==
    /\ runs > 0
    /\ age_days > 0
    /\ days_left > 0
    /\ days_left % 4 # 0
    /\ custom_categories # <<>>
    /\ HasKey(categories, "Free Time")
    /\ \E i \in 1..Len(time_future) : time_future[i][2] > 0

====
